---------------------------- MODULE Spec2Model ----------------------------
(***************************************************************************)
(* Model of the acquisition engine of download-toolbox:                    *)
(*   data/utils.py   batch_requested_dates, merge_files                    *)
(*   dataset.py      DatasetConfig (filter_extant_data, var_filepaths,     *)
(*                   save_data_for_config)                                 *)
(*   download.py     Downloader / ThreadedDownloader.download              *)
(*   data/*.py       the fetch operations of the concrete downloaders      *)
(*                                                                         *)
(* Dates are day numbers of a shrunk calendar: YearsN years of             *)
(* Cardinality(Months) months of Cardinality(Days) days.                   *)
(***************************************************************************)
EXTENDS Integers, Sequences, FiniteSets, Bags, TLC

\* ------------------------------------------------------------------ bounds
YearsN == 2
MaxLen == 3
MaxStored == 3
MaxSpan == 3
MaxSaves == 2
MaxReq == 2
MaxThreads == 2
MaxCalls == 2

\* ---------------------------------------------------------------- calendar
Months == {1, 2}
Days == {1, 2}
MPY == Cardinality(Months)
DPM == Cardinality(Days)
NDates == YearsN * MPY * DPM
Dates == 0 .. (NDates - 1)

Year(d) == d \div (MPY * DPM)
Month(d) == ((d \div DPM) % MPY) + 1
Day(d) == (d % DPM) + 1

\* The attributes a datetime.date carries that a Frequency names as its
\* grouping attribute (time.py:10-12).
Attributes == {"year", "month", "day"}

\* getattr(date, attribute)
Attr(d, attribute) ==
    CASE attribute = "year" -> Year(d)
      [] attribute = "month" -> Month(d)
      [] attribute = "day" -> Day(d)

\* --------------------------------------------------------- sequence helpers
Range(s) == {s[i] : i \in DOMAIN s}

SeqsUpTo(S, n) == UNION {[1 .. k -> S] : k \in 0 .. n}

RECURSIVE Insert(_, _)
Insert(x, s) ==
    IF s = <<>> THEN <<x>>
    ELSE IF x < Head(s) THEN <<x>> \o s
    ELSE <<Head(s)>> \o Insert(x, Tail(s))

\* sorted(xs): ascending, stable, duplicates kept
RECURSIVE sorted(_)
sorted(xs) ==
    IF xs = <<>> THEN <<>>
    ELSE Insert(xs[Len(xs)], sorted(SubSeq(xs, 1, Len(xs) - 1)))

reversed(xs) == [i \in 1 .. Len(xs) |-> xs[Len(xs) + 1 - i]]

\* list(set): the elements in some order
RECURSIVE list_of_set(_)
list_of_set(S) ==
    IF S = {} THEN <<>>
    ELSE LET x == CHOOSE y \in S : TRUE IN <<x>> \o list_of_set(S \ {x})

RECURSIVE Flatten(_)
Flatten(ss) == IF ss = <<>> THEN <<>> ELSE Head(ss) \o Flatten(Tail(ss))

Count(x, s) == Cardinality({i \in DOMAIN s : s[i] = x})

\* ------------------------------------------------- data/utils.py: batching
\* The while loop of batch_requested_dates (utils.py:33-42): dates is the
\* deque, batch the run being built, batched the finished runs.
RECURSIVE BatchLoop_Inverted(_, _, _, _)
BatchLoop_Inverted(dates, batch, batched, attribute) ==
    IF Len(dates) = 0
    THEN [dates |-> dates, batch |-> batch, batched |-> batched]
    ELSE IF Len(batch) = 0
    THEN BatchLoop_Inverted(Tail(dates), Append(batch, Head(dates)), batched, attribute)
    ELSE IF Attr(batch[Len(batch)], attribute) # Attr(Head(dates), attribute)
    THEN BatchLoop_Inverted(Tail(dates), Append(batch, Head(dates)), batched, attribute)
    ELSE BatchLoop_Inverted(dates, <<>>, Append(batched, batch), attribute)

RECURSIVE BatchLoop(_, _, _, _)
BatchLoop(dates, batch, batched, attribute) ==
    IF Len(dates) = 0
    THEN [dates |-> dates, batch |-> batch, batched |-> batched]
    ELSE IF Len(batch) = 0
    THEN BatchLoop(Tail(dates), Append(batch, Head(dates)), batched, attribute)
    ELSE IF Attr(batch[Len(batch)], attribute) = Attr(Head(dates), attribute)
    THEN BatchLoop(Tail(dates), Append(batch, Head(dates)), batched, attribute)
    ELSE BatchLoop(dates, <<>>, Append(batched, batch), attribute)

batch_requested_dates_NoLast(dates, attribute) ==
    LET r == BatchLoop(sorted(dates), <<>>, <<>>, attribute)
    IN  [raised |-> Len(r.dates) > 0, value |-> r.batched]

\* batch_requested_dates(dates, attribute): [raised, value]
batch_requested_dates(dates, attribute) ==
    LET r == BatchLoop(sorted(dates), <<>>, <<>>, attribute)
        batched == IF Len(r.batch) > 0 THEN Append(r.batched, r.batch)
                   ELSE r.batched
    IN  IF Len(r.dates) > 0
        THEN [raised |-> TRUE, value |-> <<>>]
        ELSE [raised |-> FALSE, value |-> batched]

\* ------------------------------------------------------ time.py: Frequency
\* Frequency members with their int value, date_format and attribute
\* (time.py:10-13).
FrequencyValue == [YEAR |-> 1, MONTH |-> 2, DAY |-> 3, HOUR |-> 4]
FrequencyAttribute ==
    [YEAR |-> "year", MONTH |-> "month", DAY |-> "day", HOUR |-> "hour"]

\* date.strftime(frequency.date_format): "%Y", "%Y%m", "%Y%m%d"
strftime(d, f) ==
    CASE f = "YEAR" -> <<Year(d)>>
      [] f = "MONTH" -> <<Year(d), Month(d)>>
      [] f = "DAY" -> <<Year(d), Month(d), Day(d)>>

\* Frequency is an int Enum (time.py:4): its members compare as their values
Frequencies == DOMAIN FrequencyValue
Comparisons == {"<", "<=", "==", "!=", ">=", ">"}

FrequencyCompare_Reversed(cmp, a, b) ==
    CASE cmp = "<" -> FrequencyValue[b] < FrequencyValue[a]
      [] cmp = "<=" -> FrequencyValue[b] <= FrequencyValue[a]
      [] cmp = "==" -> FrequencyValue[a] = FrequencyValue[b]
      [] cmp = "!=" -> FrequencyValue[a] # FrequencyValue[b]
      [] cmp = ">=" -> FrequencyValue[b] >= FrequencyValue[a]
      [] cmp = ">" -> FrequencyValue[b] > FrequencyValue[a]

FrequencyCompare(cmp, a, b) ==
    CASE cmp = "<" -> FrequencyValue[a] < FrequencyValue[b]
      [] cmp = "<=" -> FrequencyValue[a] <= FrequencyValue[b]
      [] cmp = "==" -> FrequencyValue[a] = FrequencyValue[b]
      [] cmp = "!=" -> FrequencyValue[a] # FrequencyValue[b]
      [] cmp = ">=" -> FrequencyValue[a] >= FrequencyValue[b]
      [] cmp = ">" -> FrequencyValue[a] > FrequencyValue[b]

\* DatasetConfig defaults: frequency (dataset.py:46), the storage frequency.
frequency == "DAY"

\* output_group_by values DatasetConfig.__init__ accepts for that frequency
\* (dataset.py:76-78).
OutputGroupBys ==
    {f \in {"YEAR", "MONTH", "DAY"} :
        ~(FrequencyValue[frequency] < FrequencyValue[f])}

\* ------------------------------------------- dataset.py: variables and paths
None == "None"
var_names == <<"t", "u">>
levels == << <<"850">>, <<None>> >>

\* DatasetConfig.__init__ (dataset.py:70-81): the checks of the constructor,
\* in order; [raised, message]
DatasetConfig_init_NoGroupCheck(freq, lvls, ogb, valid_frequencies, names) ==
    IF Len(names) < 1
    THEN [raised |-> TRUE, message |-> "No variables requested"]
    ELSE IF Len(lvls) # Len(names)
    THEN [raised |-> TRUE, message |-> "# of levels must match # vars"]
    ELSE IF freq \notin valid_frequencies
    THEN [raised |-> TRUE, message |-> "Only the following frequencies are valid"]
    ELSE [raised |-> FALSE, message |-> ""]

DatasetConfig_init(freq, lvls, ogb, valid_frequencies, names) ==
    IF Len(names) < 1
    THEN [raised |-> TRUE, message |-> "No variables requested"]
    ELSE IF Len(lvls) # Len(names)
    THEN [raised |-> TRUE, message |-> "# of levels must match # vars"]
    ELSE IF FrequencyCompare("<", freq, ogb)
    THEN [raised |-> TRUE, message |-> "You can't request a higher output frequency"]
    ELSE IF freq \notin valid_frequencies
    THEN [raised |-> TRUE, message |-> "Only the following frequencies are valid"]
    ELSE [raised |-> FALSE, message |-> ""]

\* DatasetConfig.var_config (dataset.py:310-326)
var_config(var_name, level) ==
    [name |-> IF level # None THEN var_name \o level ELSE var_name,
     prefix |-> var_name,
     level |-> level]

\* DatasetConfig.variables (dataset.py:379-385): vars outer, levels inner
RECURSIVE VariablesFrom(_, _, _)
VariablesFrom(names, lvls, i) ==
    IF i > Len(names) THEN <<>>
    ELSE [k \in 1 .. Len(lvls[i]) |-> var_config(names[i], lvls[i][k])]
         \o VariablesFrom(names, lvls, i + 1)

variables == VariablesFrom(var_names, levels, 1)
VarNames == {variables[i].name : i \in DOMAIN variables}

\* os.path.join(var_config.path, "{}.nc".format(label)) and the two side
\* files of a merge: "new.<name>" next to it and the mkstemp file in "."
CanonPath(name, label) == [dir |-> name, file |-> label, kind |-> "nc"]
MovedPath(p) == [dir |-> p.dir, file |-> p.file, kind |-> "new"]
TempPath == [dir |-> ".", file |-> <<>>, kind |-> "tmp"]

\* ----------------------------------------------------------- file system
Exists(fs, p) == p \in DOMAIN fs
WriteFile(fs, p, data) ==
    [q \in (DOMAIN fs) \cup {p} |-> IF q = p THEN data ELSE fs[q]]
Unlink(fs, p) == [q \in (DOMAIN fs) \ {p} |-> fs[q]]
Rename(fs, src, dst) == Unlink(WriteFile(fs, dst, fs[src]), src)

\* ------------------------------------------------------------ data arrays
\* A DataArray along time: a sequence of [t, v]; v is a value tag or NaN.
NaN == "nan"
Times(da) == {da[i].t : i \in DOMAIN da}

RECURSIVE InsertByTime(_, _)
InsertByTime(x, s) ==
    IF s = <<>> THEN <<x>>
    ELSE IF x.t < Head(s).t THEN <<x>> \o s
    ELSE <<Head(s)>> \o InsertByTime(x, Tail(s))

\* da.sortby("time"): stable
RECURSIVE sortby_time(_)
sortby_time(da) ==
    IF da = <<>> THEN <<>>
    ELSE InsertByTime(da[Len(da)], sortby_time(SubSeq(da, 1, Len(da) - 1)))

RECURSIVE KeepIndices(_, _, _)
KeepIndices(da, keep, i) ==
    IF i > Len(da) THEN <<>>
    ELSE (IF i \in keep THEN <<da[i]>> ELSE <<>>) \o KeepIndices(da, keep, i + 1)

\* da.drop_duplicates("time", keep="first")
drop_duplicates_first(da) ==
    KeepIndices(da, {i \in DOMAIN da : \A j \in 1 .. (i - 1) : da[j].t # da[i].t}, 1)

drop_duplicates_last(da) ==
    KeepIndices(da, {i \in DOMAIN da : \A j \in (i + 1) .. Len(da) : da[j].t # da[i].t}, 1)

SetMin(S) == CHOOSE x \in S : \A y \in S : x <= y
SetMax(S) == CHOOSE x \in S : \A y \in S : x >= y

RECURSIVE RangeSeq(_, _)
RangeSeq(lo, hi) == IF lo > hi THEN <<>> ELSE <<lo>> \o RangeSeq(lo + 1, hi)

\* da.sortby("time").resample(time="1D").mean(): one entry per day from the
\* first to the last time; a day without a sample is NaN.  series maps the
\* sampled times to values.
resample_mean(series) ==
    IF DOMAIN series = {} THEN <<>>
    ELSE LET days == RangeSeq(SetMin(DOMAIN series), SetMax(DOMAIN series))
         IN  [i \in DOMAIN days |->
                 [t |-> days[i],
                  v |-> IF days[i] \in DOMAIN series THEN series[days[i]] ELSE NaN]]

\* da.groupby("time.<attribute>"): the groups in ascending key order
groupby_time(da, attribute) ==
    LET keys == sorted(list_of_set({Attr(da[i].t, attribute) : i \in DOMAIN da}))
    IN  [k \in DOMAIN keys |->
            KeepIndices(da, {i \in DOMAIN da : Attr(da[i].t, attribute) = keys[k]}, 1)]

\* --------------------------------------------- data/utils.py: merge_files
\* merge_files(new_datafile, other_datafile) (utils.py:54-89) on file system
\* fs, every file operation succeeding.
merge_files_KeepsExisting(fs, new_datafile, other_datafile) ==
    LET moved_new_datafile == MovedPath(new_datafile)
        fs1 == Rename(fs, new_datafile, moved_new_datafile)
        d1 == fs1[moved_new_datafile]
        d2 == fs1[other_datafile]
        new_ds == drop_duplicates_first(sortby_time(d1 \o d2))
        fs2 == WriteFile(fs1, new_datafile, new_ds)
    IN  Unlink(Unlink(fs2, other_datafile), moved_new_datafile)

merge_files_NoDedup(fs, new_datafile, other_datafile) ==
    LET moved_new_datafile == MovedPath(new_datafile)
        fs1 == Rename(fs, new_datafile, moved_new_datafile)
        d1 == fs1[moved_new_datafile]
        d2 == fs1[other_datafile]
        new_ds == sortby_time(d2 \o d1)
        fs2 == WriteFile(fs1, new_datafile, new_ds)
    IN  Unlink(Unlink(fs2, other_datafile), moved_new_datafile)

merge_files(fs, new_datafile, other_datafile) ==
    LET moved_new_datafile == MovedPath(new_datafile)
        fs1 == Rename(fs, new_datafile, moved_new_datafile)
        d1 == fs1[moved_new_datafile]
        d2 == fs1[other_datafile]
        new_ds == drop_duplicates_first(sortby_time(d2 \o d1))
        fs2 == WriteFile(fs1, new_datafile, new_ds)
    IN  Unlink(Unlink(fs2, other_datafile), moved_new_datafile)

\* ------------------------------------------------- dataset.py: var_filepaths
\* DatasetConfig.var_filepaths (dataset.py:331-358) with inventory vf:
\* [raised, paths, var_files]
var_filepaths(vf, vc, date_batch, single_only, ogb) ==
    LET output_filepaths ==
            {CanonPath(vc.name, strftime(date_batch[i], ogb)) : i \in DOMAIN date_batch}
    IN  IF Cardinality(output_filepaths) > 1 /\ single_only
        THEN [raised |-> TRUE, paths |-> {}, var_files |-> vf]
        ELSE [raised |-> FALSE,
              paths |-> output_filepaths,
              var_files |->
                  [k \in (DOMAIN vf) \cup {vc.name} |->
                      IF k # vc.name THEN vf[k]
                      ELSE IF k \in DOMAIN vf THEN vf[k] \cup output_filepaths
                      ELSE output_filepaths]]

\* DatasetConfig.var_filepath (dataset.py:328-329): element [0] of
\* var_filepaths(..., single_only=True); [raised, path, var_files]
var_filepath_First(vf, vc, date_batch, ogb) ==
    LET r == var_filepaths(vf, vc, date_batch, FALSE, ogb)
    IN  IF r.paths = {}
        THEN [raised |-> "IndexError", path |-> None, var_files |-> r.var_files]
        ELSE [raised |-> "", path |-> CanonPath(vc.name, strftime(date_batch[1], ogb)),
              var_files |-> r.var_files]

var_filepath(vf, vc, date_batch, ogb) ==
    LET r == var_filepaths(vf, vc, date_batch, TRUE, ogb)
    IN  IF r.raised
        THEN [raised |-> "DataSetError", path |-> None, var_files |-> r.var_files]
        ELSE IF r.paths = {}
        THEN [raised |-> "IndexError", path |-> None, var_files |-> r.var_files]
        ELSE [raised |-> "", path |-> CHOOSE q \in r.paths : TRUE,
              var_files |-> r.var_files]

\* -------------------------------------------- dataset.py: filter_extant_data
filter_extant_data_NoFilter(fs, vf, vc, dates, ogb) ==
    [value |-> reversed(sorted(dates)),
     var_files |-> var_filepaths(vf, vc, reversed(sorted(dates)), FALSE, ogb).var_files]

filter_extant_data_NoSort(fs, vf, vc, dates, ogb) ==
    LET dt_arr == reversed(dates)
        fp == var_filepaths(vf, vc, dt_arr, FALSE, ogb)
        extant_paths == {filepath \in fp.paths : Exists(fs, filepath)}
        exclude_dates == UNION {Times(fs[filepath]) : filepath \in extant_paths}
        filtered == sorted(list_of_set(Range(dt_arr) \ exclude_dates))
    IN  [value |-> IF Cardinality(extant_paths) > 0 THEN reversed(filtered) ELSE dt_arr,
         var_files |-> fp.var_files]

\* DatasetConfig.filter_extant_data (dataset.py:139-162): [value, var_files]
filter_extant_data(fs, vf, vc, dates, ogb) ==
    LET dt_arr == reversed(sorted(dates))
        fp == var_filepaths(vf, vc, dt_arr, FALSE, ogb)
        extant_paths == {filepath \in fp.paths : Exists(fs, filepath)}
        exclude_dates == UNION {Times(fs[filepath]) : filepath \in extant_paths}
        filtered == sorted(list_of_set(Range(dt_arr) \ exclude_dates))
    IN  [value |-> IF Cardinality(extant_paths) > 0 THEN reversed(filtered) ELSE dt_arr,
         var_files |-> fp.var_files]

\* ------------------------------------------ dataset.py: save_data_for_config
\* One group of the loop at dataset.py:283-305: the canonical path is
\* looked up, then the group is written, or written aside and merged.
\* st = [files, var_files, raised, written]; written lists what went to
\* which canonical path, in order.
SaveGroup(st, vc, dt_da, ogb) ==
    LET req_dates == [i \in DOMAIN dt_da |-> dt_da[i].t]
        fp == var_filepaths(st.var_files, vc, req_dates, TRUE, ogb)
        destination_path == CHOOSE q \in fp.paths : TRUE
        merged == merge_files(WriteFile(st.files, TempPath, dt_da),
                              destination_path, TempPath)
    IN  IF fp.raised
        THEN [st EXCEPT !.raised = TRUE]
        ELSE [files |-> IF Exists(st.files, destination_path)
                        THEN merged
                        ELSE WriteFile(st.files, destination_path, dt_da),
              var_files |-> fp.var_files,
              raised |-> FALSE,
              written |-> Append(st.written,
                                 [path |-> destination_path, data |-> dt_da])]

RECURSIVE SaveGroups(_, _, _, _)
SaveGroups(st, vc, groups, ogb) ==
    IF groups = <<>> \/ st.raised THEN st
    ELSE SaveGroups(SaveGroup(st, vc, Head(groups), ogb), vc, Tail(groups), ogb)

\* The loop over the configured variables present in ds (dataset.py:277-305)
RECURSIVE SaveVariables(_, _, _, _)
SaveVariables(st, vcs, ds, ogb) ==
    IF vcs = <<>> \/ st.raised THEN st
    ELSE LET vc == Head(vcs)
             da == resample_mean(ds[vc.name])
             groups == groupby_time(da, FrequencyAttribute[ogb])
         IN  SaveVariables(SaveGroups(st, vc, groups, ogb), Tail(vcs), ds, ogb)

\* DatasetConfig.save_data_for_config (dataset.py:222-308) for a dataset ds
\* (variable name -> time -> value); NoData stands for "no source given".
\* [files, var_files, raised, written, saved]: saved tells whether
\* save_config() was reached.
NoData == <<>>
save_data_for_config_NeedsAll(fs, vf, ds, ogb, overwrite) ==
    LET st0 == [files |-> fs, var_files |-> vf, raised |-> FALSE, written |-> <<>>]
        vcs == SelectSeq(variables, LAMBDA vc : vc.name \in DOMAIN ds)
        st == SaveVariables(st0, vcs, ds, ogb)
    IN  IF ds = NoData
        THEN [files |-> fs, var_files |-> vf, raised |-> FALSE,
              written |-> <<>>, saved |-> overwrite]
        ELSE [files |-> st.files, var_files |-> st.var_files, raised |-> st.raised,
              written |-> st.written, saved |-> ~st.raised /\ DOMAIN ds = VarNames]

save_data_for_config(fs, vf, ds, ogb, overwrite) ==
    LET st0 == [files |-> fs, var_files |-> vf, raised |-> FALSE, written |-> <<>>]
        vcs == SelectSeq(variables, LAMBDA vc : vc.name \in DOMAIN ds)
        st == SaveVariables(st0, vcs, ds, ogb)
    IN  IF ds = NoData
        THEN [files |-> fs, var_files |-> vf, raised |-> FALSE,
              written |-> <<>>, saved |-> overwrite]
        ELSE [files |-> st.files, var_files |-> st.var_files, raised |-> st.raised,
              written |-> st.written, saved |-> ~st.raised]

\* DatasetConfig.get_config.merge_var_files (dataset.py:169-179) with the
\* configuration data loaded at construction (config.py:30-37)
merge_var_files_Overwrite(loaded, x) == x

merge_var_files(loaded, x) ==
    [k \in (DOMAIN loaded) \cup (DOMAIN x) |->
        (IF k \in DOMAIN loaded THEN loaded[k] ELSE {})
        \cup (IF k \in DOMAIN x THEN x[k] ELSE {})]

\* What merge_var_files leaves in the loaded configuration data: dict.copy()
\* is shallow, so data[var_name].extend(x[var_name]) (dataset.py:173-178)
\* extends the loaded lists themselves; names that were not loaded are added
\* to the copy only
extended_in_place(loaded, x) ==
    [k \in DOMAIN loaded |-> loaded[k] \cup (IF k \in DOMAIN x THEN x[k] ELSE {})]

\* DataCollection.get_config(config_funcs=, strip_keys=) as called at
\* dataset.py:193: the "_var_files" entry of the document is config_funcs'
\* "_var_files" applied to the object's _var_files
get_config(loaded, vf) == merge_var_files(loaded, vf)

\* ------------------------------------------------- data/*.py: fetch operations
\* The downloaders modelled: CDSDownloader and CMIP6LegacyDownloader run on
\* the thread pool of ThreadedDownloader.download, AWSDownloader on its own
\* process pool (aws.py:376).
Sources == {"CDS", "CMIP6", "AWS"}

\* download_path of a fetch: <root_path>/<location>/<label>.nc
\* (cds.py:209-211, esgf.py:249-251, aws.py:513-515)
DownloadPath(name, label) == [dir |-> name, file |-> label, kind |-> "raw"]

\* What a remote answer can be for one (var_config, req_dates) pair.
\*   "ok"       data arrives and is written to download_path
\*   "recorded" the transport fails, the dates go to missing_dates, nothing
\*              is returned for the pair (cds.py:299-302, aws.py:551-554)
\*   "none"     the search yields nothing, None is returned (esgf.py:226-246)
\*   "raise"    the fetch raises (cds.py:285-287, 312-318; esgf.py:298-299;
\*              aws.py:461-462, 503-506)
Answers(source) ==
    CASE source = "CDS" -> {"ok", "recorded", "raise"}
      [] source = "CMIP6" -> {"ok", "none", "raise"}
      [] source = "AWS" -> {"ok", "recorded", "raise"}

\* The times in the file a successful fetch writes: CDS asks for every day
\* of the batch's months in the year of its first date (cds.py:220-225,
\* 272); CMIP6 and AWS select first..last date of the batch
\* (esgf.py:284-285, aws.py:477-481, 527-532).
FetchedTimes(source, req_dates) ==
    IF source = "CDS"
    THEN {d \in Dates : /\ Year(d) = Year(req_dates[1])
                        /\ Month(d) \in {Month(req_dates[i]) : i \in DOMAIN req_dates}}
    ELSE req_dates[1] .. req_dates[Len(req_dates)]

FetchedData(source, req_dates) ==
    LET ts == sorted(list_of_set(FetchedTimes(source, req_dates)))
    IN  [i \in DOMAIN ts |-> [t |-> ts[i], v |-> "v1"]]

\* One (var_config, req_dates) pair of a fetch operation under answer a.
\* st = [files, var_files, paths, missing, kind, writes]: the file system,
\* the inventory of the DatasetConfig the fetch holds, the paths collected
\* for return, the dates appended to the missing_dates the fetch holds, how
\* the call ends so far ("list" | "none" | "raise"), and the number of
\* pairs for which var_filepaths assigned the inventory entry
\* (dataset.py:354-356).
FetchPairAt(source, st, req_dates, a, fp, ogb) ==
    IF fp.raised
    THEN [st EXCEPT !.kind = "raise"]
    ELSE LET download_path == (CHOOSE q \in fp.paths : TRUE)
             raw == DownloadPath(download_path.dir, download_path.file)
             st1 == [st EXCEPT !.var_files = fp.var_files, !.writes = @ + 1]
         IN  IF source = "CMIP6" /\ Exists(st.files, raw)
             THEN [st1 EXCEPT !.paths = Append(@, raw)]
             ELSE IF a = "raise"
             THEN [st1 EXCEPT !.kind = "raise"]
             ELSE IF a = "recorded"
             THEN [st1 EXCEPT !.missing = @ \o req_dates]
             ELSE [st1 EXCEPT !.files = WriteFile(@, raw, FetchedData(source, req_dates)),
                              !.paths = Append(@, raw)]

FetchPair(source, st, pair, a, ogb) ==
    IF a = "none"
    THEN [st EXCEPT !.kind = "none"]
    ELSE FetchPairAt(source, st, pair.dates, a,
                     var_filepaths(st.var_files, variables[pair.vc], pair.dates, TRUE, ogb),
                     ogb)

\* A fetch operation on its args: one pair for CDSDownloader and
\* CMIP6LegacyDownloader._single_download (cds.py:191-368, esgf.py:173-308),
\* the list of pairs of one variable for AWSDownloader._single_api_download
\* (aws.py:474-585).  answers[i] is the remote answer for pair i.
RECURSIVE FetchPairs(_, _, _, _, _)
FetchPairs(source, st, pairs, answers, ogb) ==
    IF pairs = <<>> \/ st.kind # "list" THEN st
    ELSE FetchPairs(source, FetchPair(source, st, Head(pairs), Head(answers), ogb),
                    Tail(pairs), Tail(answers), ogb)

single_download(source, fs, vf, pairs, answers, ogb) ==
    FetchPairs(source,
               [files |-> fs, var_files |-> vf, paths |-> <<>>, missing |-> <<>>,
                kind |-> "list", writes |-> 0],
               pairs, answers, ogb)

\* =========================================================================
\* State
\* =========================================================================
VARIABLES
    \* DatasetConfig and the file system under it
    output_group_by,  \* DatasetConfig._output_group_by
    files,            \* path -> DataArray, for the files that exist
    var_files,        \* DatasetConfig._var_files: name -> paths
    config_doc,       \* the persisted configuration's _var_files
    \* a call of batch_requested_dates
    b_pc,             \* "idle" | "call" | "returned" | "raised"
    b_dates,          \* its dates argument
    b_attr,           \* its attribute argument
    b_out,            \* its return value
    \* a call of filter_extant_data
    f_pc,             \* "idle" | "call" | "returned" | "again"
    f_vc,             \* index of its var_config in variables
    f_dates,          \* its dates argument
    f_out,            \* its return value
    \* calls of save_data_for_config
    s_calls,          \* number of calls made
    s_raised,         \* whether the last call raised DataSetError
    history,          \* every group written so far: [path, data], in order
    \* a Downloader and one run of download() followed by consolidation
    source,           \* which downloader class it is
    request_frequency,\* Downloader._request_frequency
    planned,          \* the calls the planning loop of download() has made
    dates,            \* Downloader._dates
    pc,               \* "idle" | "planning" | "dispatching" | "done" |
                      \* "consolidated" | "raised"
    req_list,         \* the units built by download(), in submission order
    status,           \* unit -> "queued" | "running" | "done" | "collected"
    result,           \* unit -> how its future completed: [kind, paths]
    \* The three lists below are kept as bags: element -> number of
    \* occurrences.  Their order is the order in which units complete and no
    \* code reads it.
    files_downloaded, \* Downloader._files_downloaded
    missing_dates,    \* Downloader._missing_dates of the calling process
    appended,         \* every date a fetch operation appended to the
                      \* missing_dates it holds, in any process
    calls,            \* number of download() calls begun on the Downloader
    vf_writers,       \* who assigned an entry of DatasetConfig._var_files
                      \* since the pool was created: "worker" for a fetch
                      \* operation running on a pool thread
    config_data,      \* Configuration.data["_var_files"] of the DatasetConfig,
                      \* as loaded when it was constructed
    \* one call of an operation of the public interface
    c_pc,             \* "idle" | "call" | "returned"
    call,             \* [op, ...] the operation and its arguments
    ret               \* what it returned or raised

datasetVars == <<output_group_by, files, var_files, config_doc, config_data>>
batchVars == <<b_pc, b_dates, b_attr, b_out>>
filterVars == <<f_pc, f_vc, f_dates, f_out>>
storeVars == <<s_calls, s_raised, history>>
runVars == <<source, request_frequency, planned, dates, pc, req_list, status, result,
             files_downloaded, missing_dates, appended, calls, vf_writers>>
callVars == <<c_pc, call, ret>>
vars == <<datasetVars, batchVars, filterVars, storeVars, runVars, callVars>>

NoFiles == <<>>
NoConfig == <<>>

\* A freshly constructed DatasetConfig on an empty data directory
DatasetFresh ==
    /\ output_group_by \in OutputGroupBys
    /\ files = NoFiles
    /\ var_files = <<>>
    /\ config_doc = NoConfig
    /\ config_data = NoConfig

BatchIdle == b_pc = "idle" /\ b_dates = <<>> /\ b_attr = "month" /\ b_out = <<>>
FilterIdle == f_pc = "idle" /\ f_vc = 1 /\ f_dates = <<>> /\ f_out = <<>>
StoreIdle == s_calls = 0 /\ s_raised = FALSE /\ history = <<>>
RunIdle ==
    /\ source = "CDS" /\ request_frequency = "DAY" /\ dates = <<>>
    /\ planned = <<>>
    /\ pc = "idle" /\ req_list = <<>> /\ status = <<>> /\ result = <<>>
    /\ files_downloaded = EmptyBag /\ missing_dates = EmptyBag /\ appended = EmptyBag
    /\ calls = 0 /\ vf_writers = {}
CallIdle == c_pc = "idle" /\ call = <<>> /\ ret = <<>>

\* ------------------------------------------ batch_requested_dates, applied
BatchInit ==
    /\ DatasetFresh /\ FilterIdle /\ StoreIdle /\ RunIdle /\ CallIdle
    /\ b_pc = "call"
    /\ b_dates \in SeqsUpTo(Dates, MaxLen)
    /\ b_attr \in Attributes
    /\ b_out = <<>>

BatchCall ==
    /\ b_pc = "call"
    /\ \E r \in {batch_requested_dates(b_dates, b_attr)} :
           /\ b_pc' = IF r.raised THEN "raised" ELSE "returned"
           /\ b_out' = r.value
    /\ UNCHANGED <<b_dates, b_attr, callVars, datasetVars, filterVars, storeVars, runVars>>

BatchNext == BatchCall

SpecBatch == BatchInit /\ [][BatchNext]_vars

\* --------------------------------------------- filter_extant_data, applied
\* pd.date_range(start_date, end_date, freq="D") as dates (download.py:48-49)
date_range(start_date, end_date) == RangeSeq(start_date, end_date)

\* The canonical files of a slot holding exactly the times in E: one file
\* per output period, ascending in time, as save_data_for_config leaves them.
FilesHolding(name, E, ogb) ==
    LET labels == {strftime(d, ogb) : d \in E}
    IN  [p \in {CanonPath(name, l) : l \in labels} |->
            LET ts == sorted(list_of_set({d \in E : strftime(d, ogb) = p.file}))
            IN  [i \in DOMAIN ts |-> [t |-> ts[i], v |-> "v1"]]]

FilterInit ==
    /\ BatchIdle /\ StoreIdle /\ RunIdle /\ CallIdle
    /\ output_group_by \in OutputGroupBys
    /\ var_files = <<>>
    /\ config_doc = NoConfig
    /\ config_data = NoConfig
    /\ f_pc = "call"
    /\ f_vc \in DOMAIN variables
    /\ \E E \in {S \in SUBSET Dates : Cardinality(S) <= MaxStored} :
          files = [p \in UNION {DOMAIN FilesHolding(variables[i].name,
                                    IF i = f_vc THEN E ELSE Dates, output_group_by) :
                                i \in DOMAIN variables} |->
                     FilesHolding(p.dir, IF p.dir = variables[f_vc].name THEN E ELSE Dates,
                                  output_group_by)[p]]
    /\ \E start_date, end_date \in Dates :
          /\ start_date <= end_date
          /\ end_date - start_date < MaxSpan
          /\ f_dates \in {date_range(start_date, end_date),
                          reversed(date_range(start_date, end_date))}
    /\ f_out = <<>>

FilterCall ==
    /\ f_pc = "call"
    /\ \E r \in {filter_extant_data(files, var_files, variables[f_vc], f_dates,
                                    output_group_by)} :
           /\ f_out' = r.value
           /\ var_files' = r.var_files
    /\ f_pc' = "returned"
    /\ UNCHANGED <<output_group_by, config_data, files, config_doc, f_vc, f_dates,
                   batchVars, callVars, storeVars, runVars>>

FilterNext == FilterCall

SpecFilter == FilterInit /\ [][FilterNext]_vars

\* filter_extant_data called again on the value it returned, nothing having
\* been written in between
FilterAgain ==
    /\ f_pc = "returned"
    /\ \E r \in {filter_extant_data(files, var_files, variables[f_vc], f_out,
                                    output_group_by)} :
           /\ f_out' = r.value
           /\ var_files' = r.var_files
    /\ f_dates' = f_out
    /\ f_pc' = "again"
    /\ UNCHANGED <<output_group_by, config_data, files, config_doc, f_vc,
                   batchVars, callVars, storeVars, runVars>>

RefilterNext ==
    \/ FilterCall
    \/ FilterAgain

SpecRefilter == FilterInit /\ [][RefilterNext]_vars

\* ------------------------------------------- save_data_for_config, applied
\* The value written by the k-th call
Tags == <<"v1", "v2", "v3", "v4">>

\* The time coordinates of the datasets handed to save_data_for_config: a
\* run of days, or its two end days only.
TimeSets ==
    UNION {{r[1] .. r[2], {r[1], r[2]}} :
           r \in {x \in Dates \X Dates : x[1] <= x[2] /\ x[2] - x[1] < MaxSpan}}

SaveCall ==
    /\ s_calls < MaxSaves
    /\ \E T \in TimeSets :
          LET ds == [n \in VarNames |-> [t \in T |-> Tags[s_calls + 1]]]
          IN  \E r \in {save_data_for_config(files, var_files, ds, output_group_by, FALSE)} :
              /\ files' = r.files
              /\ var_files' = r.var_files
              /\ s_raised' = r.raised
              /\ history' = history \o r.written
              /\ config_doc' = IF r.saved THEN merge_var_files(config_data, r.var_files)
                               ELSE config_doc
              /\ config_data' = IF r.saved THEN extended_in_place(config_data, r.var_files)
                                ELSE config_data
    /\ s_calls' = s_calls + 1
    /\ UNCHANGED <<output_group_by, batchVars, callVars, filterVars, runVars>>

StoreInit == DatasetFresh /\ BatchIdle /\ FilterIdle /\ StoreIdle /\ RunIdle /\ CallIdle

StoreNext == SaveCall

SpecStore == StoreInit /\ [][StoreNext]_vars

\* ------------------------------- one call of save_data_for_config, applied
\* The time coordinates of a source dataset: a run of days or its two end
\* days, anywhere in the calendar
SourceTimes ==
    UNION {{r[1] .. r[2], {r[1], r[2]}} : r \in {x \in Dates \X Dates : x[1] <= x[2]}}

\* The source datasets: data for some or all of the configured variables
SourceDatasets ==
    {[n \in N |-> [t \in T |-> "v2"]] : N \in (SUBSET VarNames) \ {{}}, T \in SourceTimes}

\* What is stored for every slot before the call
StoredBefore == {{}, {0}, Dates}

OneSaveInit ==
    /\ BatchIdle /\ FilterIdle /\ StoreIdle /\ RunIdle
    /\ output_group_by \in OutputGroupBys
    /\ \E E \in StoredBefore :
          files = [q \in UNION {DOMAIN FilesHolding(n, E, output_group_by) : n \in VarNames} |->
                      FilesHolding(q.dir, E, output_group_by)[q]]
    /\ var_files = <<>>
    /\ config_doc = NoConfig
    /\ config_data = NoConfig
    /\ c_pc = "call"
    /\ \E ds \in SourceDatasets \cup {NoData}, overwrite \in BOOLEAN :
          call = [op |-> "save_data_for_config", ds |-> ds, overwrite |-> overwrite,
                  files |-> files]
    /\ ret = <<>>

\* dataset.save_data_for_config(source_ds=ds) on a DatasetConfig constructed
\* with overwrite; ret.saves counts the calls of save_config()
OneSave ==
    /\ c_pc = "call" /\ call.op = "save_data_for_config"
    /\ \E r \in {save_data_for_config(files, var_files, call.ds, output_group_by,
                                      call.overwrite)} :
          /\ files' = r.files
          /\ var_files' = r.var_files
          /\ config_doc' = IF r.saved THEN merge_var_files(config_data, r.var_files)
                           ELSE config_doc
          /\ config_data' = IF r.saved THEN extended_in_place(config_data, r.var_files)
                            ELSE config_data
          /\ ret' = [raised |-> r.raised, written |-> r.written,
                     saves |-> IF r.saved THEN 1 ELSE 0]
          /\ c_pc' = IF r.raised THEN "raised" ELSE "returned"
    /\ UNCHANGED <<call, output_group_by, batchVars, filterVars, storeVars, runVars>>

OneSaveNext == OneSave

SpecOneSave == OneSaveInit /\ [][OneSaveNext]_vars

\* --------------------------------------- merge_files, one statement at a time
\* merge_files(destination_path, temporary_name) as save_data_for_config
\* calls it (dataset.py:293-301): the canonical file of the first slot's
\* first year holds the times E, the temporary file a group of days of that
\* year.  ret holds the arrays the call has in memory.
FirstYear == {d \in Dates : Year(d) = 0}

MergeInit ==
    /\ BatchIdle /\ FilterIdle /\ StoreIdle /\ RunIdle
    /\ output_group_by = "YEAR"
    /\ \E E \in (SUBSET FirstYear) \ {{}}, lo, hi \in FirstYear :
          /\ lo <= hi
          /\ files = WriteFile(FilesHolding(variables[1].name, E, output_group_by),
                               TempPath,
                               [i \in 1 .. (hi - lo + 1) |-> [t |-> lo + i - 1, v |-> "v2"]])
    /\ var_files = <<>>
    /\ config_doc = NoConfig
    /\ config_data = NoConfig
    /\ c_pc = "call"
    /\ call = [op |-> "merge_files",
               new_datafile |-> CanonPath(variables[1].name, <<0>>),
               other_datafile |-> TempPath,
               files |-> files]
    /\ ret = <<>>

MergeUnchanged ==
    UNCHANGED <<call, output_group_by, var_files, config_doc, config_data,
                batchVars, filterVars, storeVars, runVars>>

\* os.rename(new_datafile, moved_new_datafile) (utils.py:66-69)
MergeRename ==
    /\ c_pc = "call" /\ call.op = "merge_files"
    /\ files' = Rename(files, call.new_datafile, MovedPath(call.new_datafile))
    /\ c_pc' = "renamed"
    /\ UNCHANGED ret
    /\ MergeUnchanged

\* d1 = xr.open_dataarray(moved_new_datafile); d2 =
\* xr.open_dataarray(other_datafile) (utils.py:70-77)
MergeOpen ==
    /\ c_pc = "renamed"
    /\ ret' = [d1 |-> files[MovedPath(call.new_datafile)],
               d2 |-> files[call.other_datafile],
               new_ds |-> <<>>]
    /\ c_pc' = "opened"
    /\ UNCHANGED files
    /\ MergeUnchanged

\* xr.concat([d2, d1]).sortby("time").drop_duplicates("time", keep="first")
\* (utils.py:81-83)
MergeConcat ==
    /\ c_pc = "opened"
    /\ ret' = [ret EXCEPT !.new_ds = drop_duplicates_first(sortby_time(ret.d2 \o ret.d1))]
    /\ c_pc' = "concatenated"
    /\ UNCHANGED files
    /\ MergeUnchanged

\* new_ds.to_netcdf(new_datafile) (utils.py:87)
MergeWrite ==
    /\ c_pc = "concatenated"
    /\ files' = WriteFile(files, call.new_datafile, ret.new_ds)
    /\ c_pc' = "written"
    /\ UNCHANGED ret
    /\ MergeUnchanged

MergeUnlinkOther_BeforeWrite ==
    /\ c_pc = "concatenated"
    /\ files' = Unlink(files, call.other_datafile)
    /\ c_pc' = "unlinked"
    /\ UNCHANGED ret
    /\ MergeUnchanged

\* os.unlink(other_datafile) (utils.py:88)
MergeUnlinkOther ==
    /\ c_pc = "written"
    /\ files' = Unlink(files, call.other_datafile)
    /\ c_pc' = "unlinked"
    /\ UNCHANGED ret
    /\ MergeUnchanged

\* os.unlink(moved_new_datafile) (utils.py:89)
MergeUnlinkMoved ==
    /\ c_pc = "unlinked"
    /\ files' = Unlink(files, MovedPath(call.new_datafile))
    /\ c_pc' = "returned"
    /\ UNCHANGED ret
    /\ MergeUnchanged

\* Opening, concatenating or writing raises: merge_files has no handler, nor
\* has save_data_for_config around its call (dataset.py:293-301), so the
\* exception leaves both.  A failed write leaves no file or a truncated one.
MergeRaises ==
    /\ c_pc \in {"renamed", "opened", "concatenated"}
    /\ files' \in IF c_pc = "concatenated"
                  THEN {files, WriteFile(files, call.new_datafile, <<>>)}
                  ELSE {files}
    /\ c_pc' = "raised"
    /\ UNCHANGED ret
    /\ MergeUnchanged

MergeNext ==
    \/ MergeRename
    \/ MergeOpen
    \/ MergeConcat
    \/ MergeWrite
    \/ MergeUnlinkOther
    \/ MergeUnlinkMoved
    \/ MergeRaises

SpecMerge == MergeInit /\ [][MergeNext]_vars

\* ------------------------------------------- a run of download(), applied
\* Downloader.__init__ (download.py:58-60): the request frequency is clamped
\* into the source's range
ClampFrequency_NoUpper(rf, source_min_frequency, source_max_frequency) ==
    IF FrequencyValue[rf] < FrequencyValue[source_min_frequency]
    THEN source_min_frequency
    ELSE rf

ClampFrequency(rf, source_min_frequency, source_max_frequency) ==
    IF FrequencyValue[rf] < FrequencyValue[source_min_frequency]
    THEN source_min_frequency
    ELSE IF FrequencyValue[rf] > FrequencyValue[source_max_frequency]
    THEN source_max_frequency
    ELSE rf

\* CDSDownloader, CMIP6LegacyDownloader and AWSDownloader all pass
\* source_min_frequency=YEAR, source_max_frequency=HOUR
source_min_frequency == "YEAR"
source_max_frequency == "HOUR"

\* ThreadedDownloader._max_threads
max_threads == MaxThreads

\* The planning loop without the extant-data filter: every requested date of
\* every slot is batched.
RECURSIVE PlanFrom_AllDates(_, _, _, _, _, _)
PlanFrom_AllDates(i, fs, vf, ds, attribute, ogb) ==
    IF i > Len(variables)
    THEN [pairs |-> <<>>, var_files |-> vf, raised |-> FALSE, log |-> <<>>]
    ELSE LET b == batch_requested_dates(ds, attribute)
             rest == PlanFrom_AllDates(i + 1, fs, vf, ds, attribute, ogb)
         IN  [pairs |-> [k \in DOMAIN b.value |-> [vc |-> i, dates |-> b.value[k]]]
                        \o rest.pairs,
              var_files |-> rest.var_files,
              raised |-> rest.raised,
              log |-> <<[op |-> "batch_requested_dates", vc |-> i]>> \o rest.log]

\* The planning loop of download() from variable i on (download.py:179-186,
\* aws.py:358-365): the (var_config, req_date_batch) pairs in order, and the
\* inventory as filter_extant_data leaves it, and the calls made.
RECURSIVE PlanFrom(_, _, _, _, _, _)
PlanFrom(i, fs, vf, ds, attribute, ogb) ==
    IF i > Len(variables)
    THEN [pairs |-> <<>>, var_files |-> vf, raised |-> FALSE, log |-> <<>>]
    ELSE LET f == filter_extant_data(fs, vf, variables[i], ds, ogb)
             b == batch_requested_dates(f.value, attribute)
             rest == PlanFrom(i + 1, fs, f.var_files, ds, attribute, ogb)
             called == <<[op |-> "filter_extant_data", vc |-> i],
                         [op |-> "batch_requested_dates", vc |-> i]>>
         IN  IF b.raised
             THEN [pairs |-> <<>>, var_files |-> f.var_files, raised |-> TRUE,
                   log |-> called]
             ELSE [pairs |-> [k \in DOMAIN b.value |-> [vc |-> i, dates |-> b.value[k]]]
                             \o rest.pairs,
                   var_files |-> rest.var_files,
                   raised |-> rest.raised,
                   log |-> called \o rest.log]

\* var_config_collection[var_config.prefix].append(...) and its values()
\* (aws.py:354, 365-368): one unit per prefix, in order of first appearance
RECURSIVE Collate(_, _)
Collate(pairs, units) ==
    IF pairs = <<>> THEN units
    ELSE LET pr == variables[Head(pairs).vc].prefix
             at == {j \in DOMAIN units : variables[units[j][1].vc].prefix = pr}
         IN  IF at = {}
             THEN Collate(Tail(pairs), Append(units, <<Head(pairs)>>))
             ELSE Collate(Tail(pairs),
                          [units EXCEPT ![CHOOSE j \in at : TRUE] = Append(@, Head(pairs))])

\* req_list: one unit per pair on the thread pool (download.py:186), one
\* unit per prefix on the process pool (aws.py:367-368)
Units(src, pairs) ==
    IF src = "AWS" THEN Collate(pairs, <<>>)
    ELSE [k \in DOMAIN pairs |-> <<pairs[k]>>]

Min(a, b) == IF a < b THEN a ELSE b

\* What list.extend(xs) adds to a list kept as a bag
extend(xs) == [x \in Range(xs) |-> Count(x, xs)]

\* max_workers = min(len(req_list), self._max_threads) (download.py:188)
max_workers == Min(Len(req_list), max_threads)

\* xr.open_mfdataset(source_files, combine="by_coords") (dataset.py:238-246):
\* the files of one variable are concatenated along time, which fails with
\* ValueError when their time coordinates interleave or overlap; variables
\* are joined on the union of the times, absent values being NaN.  What
\* xarray makes of a path listed twice is not fixed by this code: it either
\* reads the file once or fails with ValueError.  The set of outcomes.
open_mfdataset(fs, source_files) ==
    LET paths == BagToSet(source_files)
        names == {q.dir : q \in paths}
        T == UNION {Times(fs[q]) : q \in paths}
        clash == \E q1, q2 \in paths :
                    /\ q1 # q2 /\ q1.dir = q2.dir
                    /\ SetMin(Times(fs[q2])) <= SetMax(Times(fs[q1]))
                    /\ SetMin(Times(fs[q1])) <= SetMin(Times(fs[q2]))
        twice == \E q \in paths : CopiesIn(q, source_files) > 1
        ds == [n \in names |->
                 [t \in T |->
                     LET holding == {q \in paths : q.dir = n /\ t \in Times(fs[q])}
                     IN  IF holding = {} THEN NaN
                         ELSE LET da == fs[CHOOSE q \in holding : TRUE]
                              IN  da[CHOOSE i \in DOMAIN da : da[i].t = t].v]]
    IN  IF clash THEN {[raised |-> TRUE, ds |-> NoData]}
        ELSE IF twice THEN {[raised |-> TRUE, ds |-> NoData], [raised |-> FALSE, ds |-> ds]}
        ELSE {[raised |-> FALSE, ds |-> ds]}

\* A Downloader of some source constructed on a dataset whose data
\* directory holds canonical files for some of the requested dates, left by
\* an earlier run that stored them for the first slot and for any of the
\* other slots, and about to run download().
RunInit ==
    /\ BatchIdle /\ FilterIdle /\ StoreIdle /\ CallIdle
    /\ output_group_by \in OutputGroupBys
    /\ source \in Sources
    /\ \E rf \in OutputGroupBys :
          request_frequency = ClampFrequency(rf, source_min_frequency, source_max_frequency)
    /\ \E start_date, end_date \in Dates :
          /\ start_date <= end_date
          /\ end_date - start_date < MaxReq
          /\ dates = date_range(start_date, end_date)
    /\ \E E \in {e \in [DOMAIN variables -> SUBSET Range(dates)] :
                    \A i \in DOMAIN variables : e[i] \in {e[1], {}}} :
          files = [q \in UNION {DOMAIN FilesHolding(variables[i].name, E[i], output_group_by) :
                                i \in DOMAIN variables} |->
                     FilesHolding(q.dir,
                                  E[CHOOSE i \in DOMAIN variables : variables[i].name = q.dir],
                                  output_group_by)[q]]
    /\ var_files = <<>>
    /\ config_doc = merge_var_files(<<>>, [n \in {q.dir : q \in DOMAIN files} |->
                                              {q \in DOMAIN files : q.dir = n}])
    /\ config_data = config_doc
    /\ calls = 1 /\ vf_writers = {}
    /\ pc = "planning" /\ planned = <<>>
    /\ req_list = <<>> /\ status = <<>> /\ result = <<>>
    /\ files_downloaded = EmptyBag /\ missing_dates = EmptyBag /\ appended = EmptyBag

\* download() up to and including the submission of every unit
\* (download.py:177-199, aws.py:353-381).  Workers only act on submitted
\* units and the collection loop starts after the last submit, so the
\* submissions are taken in one step with the planning.
Plan ==
    /\ pc = "planning"
    /\ \E r \in {PlanFrom(1, files, var_files, dates,
                          FrequencyAttribute[request_frequency], output_group_by)} :
          /\ var_files' = r.var_files
          /\ planned' = r.log
          /\ req_list' = IF r.raised THEN <<>> ELSE Units(source, r.pairs)
          /\ pc' = IF r.raised THEN "raised"
                   ELSE IF Min(Len(req_list'), max_threads) > 0 THEN "dispatching"
                   ELSE "done"
          /\ status' = [u \in DOMAIN req_list' |-> "queued"]
          /\ result' = [u \in DOMAIN req_list' |-> [kind |-> "pending", paths |-> <<>>]]
    /\ UNCHANGED <<output_group_by, config_data, files, config_doc, source, request_frequency, calls, vf_writers, dates,
                   files_downloaded, missing_dates, appended,
                   batchVars, callVars, filterVars, storeVars>>

\* A pool that starts a thread per submitted unit
Start_NoLimit(u) ==
    /\ pc = "dispatching"
    /\ status[u] = "queued"
    /\ \A v \in DOMAIN req_list : v < u => status[v] # "queued"
    /\ status' = [status EXCEPT ![u] = "running"]
    /\ UNCHANGED <<datasetVars, batchVars, callVars, filterVars, storeVars, source,
                   request_frequency, planned, calls, vf_writers, dates, pc, req_list, result,
                   files_downloaded, missing_dates, appended>>

\* A free worker of the pool takes the oldest queued unit
Start(u) ==
    /\ pc = "dispatching"
    /\ status[u] = "queued"
    /\ \A v \in DOMAIN req_list : v < u => status[v] # "queued"
    /\ Cardinality({v \in DOMAIN req_list : status[v] = "running"}) < max_workers
    /\ status' = [status EXCEPT ![u] = "running"]
    /\ UNCHANGED <<datasetVars, batchVars, callVars, filterVars, storeVars, source,
                   request_frequency, planned, calls, vf_writers, dates, pc, req_list, result,
                   files_downloaded, missing_dates, appended>>

\* The fetch operation of unit u runs to its end in its worker.  On the
\* thread pool it works on the Downloader and DatasetConfig of the caller;
\* on the process pool it works on the copies pickled into the child
\* (aws.py:376-380), so only the file system and its return value are seen
\* by the caller.
Finish(u) ==
    /\ pc = "dispatching"
    /\ status[u] = "running"
    /\ \E answers \in [DOMAIN req_list[u] -> Answers(source)] :
          \E r \in {single_download(source, files, var_files, req_list[u], answers,
                                    output_group_by)} :
             /\ files' = r.files
             /\ var_files' = IF source = "AWS" THEN var_files ELSE r.var_files
             /\ missing_dates' = IF source = "AWS" THEN missing_dates
                                 ELSE missing_dates (+) extend(r.missing)
             /\ appended' = appended (+) extend(r.missing)
             /\ vf_writers' = IF source # "AWS" /\ r.writes > 0
                              THEN vf_writers \cup {"worker"} ELSE vf_writers
             /\ result' = [result EXCEPT ![u] =
                              [kind |-> r.kind,
                               paths |-> IF r.kind = "list" THEN r.paths ELSE <<>>]]
    /\ status' = [status EXCEPT ![u] = "done"]
    /\ UNCHANGED <<output_group_by, config_data, config_doc, batchVars, callVars, filterVars, storeVars,
                   source, request_frequency, planned, calls, dates, pc, req_list, files_downloaded>>

\* The collection turn without the try/except: the exception of the future
\* leaves download().
Collect_Reraises(u) ==
    /\ pc = "dispatching"
    /\ status[u] = "done"
    /\ files_downloaded' = IF result[u].kind = "list"
                           THEN files_downloaded (+) extend(result[u].paths)
                           ELSE files_downloaded
    /\ pc' = IF result[u].kind = "raise" THEN "raised" ELSE pc
    /\ status' = [status EXCEPT ![u] = "collected"]
    /\ UNCHANGED <<datasetVars, batchVars, callVars, filterVars, storeVars, source,
                   request_frequency, planned, calls, vf_writers, dates, req_list, result, missing_dates,
                   appended>>

\* One turn of the as_completed loop (download.py:201-212, aws.py:383-394)
Collect(u) ==
    /\ pc = "dispatching"
    /\ status[u] = "done"
    /\ files_downloaded' = IF result[u].kind = "list"
                           THEN files_downloaded (+) extend(result[u].paths)
                           ELSE files_downloaded
    /\ pc' = pc
    /\ status' = [status EXCEPT ![u] = "collected"]
    /\ UNCHANGED <<datasetVars, batchVars, callVars, filterVars, storeVars, source,
                   request_frequency, planned, calls, vf_writers, dates, req_list, result, missing_dates,
                   appended>>

\* download() returning while futures are still out
Return_BeforeCollected ==
    /\ pc = "dispatching"
    /\ pc' = "done"
    /\ UNCHANGED <<datasetVars, batchVars, callVars, filterVars, storeVars, source,
                   request_frequency, planned, calls, vf_writers, dates, req_list, status, result,
                   files_downloaded, missing_dates, appended>>

\* The loop ends, the executor shuts down and download() returns
\* (download.py:199, 214)
Return ==
    /\ pc = "dispatching"
    /\ \A u \in DOMAIN req_list : status[u] = "collected"
    /\ pc' = "done"
    /\ UNCHANGED <<datasetVars, batchVars, callVars, filterVars, storeVars, source,
                   request_frequency, planned, calls, vf_writers, dates, req_list, status, result,
                   files_downloaded, missing_dates, appended>>

\* dataset.save_data_for_config(source_files=downloader.files_downloaded)
\* as the entry points call it after download() (cds.py:995-998,
\* esgf.py:433-435, aws.py:627-630)
Consolidate ==
    /\ pc = "done"
    /\ \E o \in (IF files_downloaded = EmptyBag THEN {[raised |-> FALSE, ds |-> NoData]}
                 ELSE open_mfdataset(files, files_downloaded)) :
          \E r \in {IF o.raised
                    THEN [files |-> files, var_files |-> var_files, raised |-> TRUE,
                          written |-> <<>>, saved |-> FALSE]
                    ELSE save_data_for_config(files, var_files, o.ds, output_group_by,
                                              FALSE)} :
             /\ files' = r.files
             /\ var_files' = r.var_files
             /\ s_raised' = r.raised
             /\ history' = history \o r.written
             /\ config_doc' = IF r.saved THEN merge_var_files(config_data, r.var_files)
                              ELSE config_doc
             /\ config_data' = IF r.saved THEN extended_in_place(config_data, r.var_files)
                               ELSE config_data
    /\ s_calls' = s_calls + 1
    /\ pc' = "consolidated"
    /\ UNCHANGED <<output_group_by, batchVars, callVars, filterVars, source, request_frequency, planned, calls, vf_writers,
                   dates, req_list, status, result, files_downloaded, missing_dates,
                   appended>>

Next ==
    \/ Plan
    \/ \E u \in DOMAIN req_list : Start(u)
    \/ \E u \in DOMAIN req_list : Finish(u)
    \/ \E u \in DOMAIN req_list : Collect(u)
    \/ Return
    \/ Consolidate

Spec == RunInit /\ [][Next]_vars

\* download() on the thread pool alone, with the scheduling the claim of
\* termination assumes: the planning runs to its end, a free worker takes a
\* queued unit (ThreadPoolExecutor), a running fetch operation terminates,
\* as_completed yields every finished future, and the with block is left
\* when the loop is exhausted.
ThreadedInit == RunInit /\ source # "AWS"

ThreadedNext ==
    \/ Plan
    \/ \E u \in DOMAIN req_list : Start(u)
    \/ \E u \in DOMAIN req_list : Finish(u)
    \/ \E u \in DOMAIN req_list : Collect(u)
    \/ Return

\* When Plan and some Finish(u) can act: both change pc or status whenever
\* their guard holds
PlanEnabled == pc = "planning"
FinishEnabled == pc = "dispatching" /\ \E u \in DOMAIN req_list : status[u] = "running"

\* Weak fairness of each step; for Plan and Finish it is written with the
\* enabling condition spelled out.
SpecThreaded ==
    /\ ThreadedInit /\ [][ThreadedNext]_vars
    /\ ([]<>(~PlanEnabled) \/ []<><<Plan>>_vars)
    /\ WF_vars(\E u \in DOMAIN req_list : Start(u))
    /\ ([]<>(~FinishEnabled) \/ []<><<\E u \in DOMAIN req_list : Finish(u)>>_vars)
    /\ WF_vars(\E u \in DOMAIN req_list : Collect(u))
    /\ WF_vars(Return)

\* ------------------------------------ download() called again on one object
\* download() is a public method without a guard on earlier calls: the
\* constructor alone sets _files_downloaded and _missing_dates
\* (download.py:53-56), req_list and the pool are locals of the call
\* (download.py:177, 194).
ReuseInit ==
    /\ RunInit
    /\ source = "CDS"
    /\ Len(dates) = 1

\* downloader.download() on a Downloader whose download() has returned
Again ==
    /\ pc = "done"
    /\ calls < MaxCalls
    /\ calls' = calls + 1
    /\ pc' = "planning"
    /\ req_list' = <<>> /\ status' = <<>> /\ result' = <<>>
    /\ planned' = <<>>
    /\ UNCHANGED <<datasetVars, batchVars, callVars, filterVars, storeVars, source,
                   request_frequency, vf_writers, dates, files_downloaded, missing_dates,
                   appended>>

ReuseNext ==
    \/ Plan
    \/ \E u \in DOMAIN req_list : Start(u)
    \/ \E u \in DOMAIN req_list : Finish(u)
    \/ \E u \in DOMAIN req_list : Collect(u)
    \/ Return
    \/ Consolidate
    \/ Again

SpecReuse == ReuseInit /\ [][ReuseNext]_vars

\* ---------------------------------- download() of the sequential Downloader
\* MARSDownloader inherits Downloader.download (download.py:75-92) and
\* passes source_min_frequency=YEAR, source_max_frequency=MONTH
\* (mars.py:107-112).
mars_source_max_frequency == "MONTH"

\* What the MARS service can answer to one request:
\*   "ok"            the data arrives in temp_download_path
\*   "api_exception" execute raises ecmwfapi.api.APIException, caught at
\*                   mars.py:179-181
\*   "raise"         any other exception of execute, or of reading the
\*                   temporary file back (mars.py:187-192), caught nowhere
MarsAnswers == {"ok", "api_exception", "raise"}

\* dt.replace(day=1) (mars.py:153-154)
FirstOfMonth(d) == d - (Day(d) - 1)

\* MARSDownloader._single_download (mars.py:114-202) under answer a:
\* [files, var_files, kind, paths]
mars_single_download(fs, vf, pair, a, ogb) ==
    LET fp == var_filepath(vf, variables[pair.vc], pair.dates, ogb)
    IN  IF fp.raised # ""
        THEN [files |-> fs, var_files |-> fp.var_files, kind |-> "raise", paths |-> <<>>]
        ELSE LET download_path == DownloadPath(fp.path.dir, fp.path.file)
                 temp_download_path == [dir |-> fp.path.dir, file |-> fp.path.file,
                                        kind |-> "temp"]
                 ts == sorted(list_of_set({FirstOfMonth(pair.dates[k]) :
                                              k \in DOMAIN pair.dates}))
                 fetched == [k \in DOMAIN ts |-> [t |-> ts[k], v |-> "v1"]]
                 fs1 == IF Exists(fs, temp_download_path) THEN fs
                        ELSE WriteFile(fs, temp_download_path, fetched)
             IN  IF Exists(fs, download_path)
                 THEN [files |-> fs, var_files |-> fp.var_files, kind |-> "list",
                       paths |-> <<download_path>>]
                 ELSE IF ~Exists(fs, temp_download_path) /\ a = "api_exception"
                 THEN [files |-> fs, var_files |-> fp.var_files, kind |-> "list",
                       paths |-> <<>>]
                 ELSE IF a = "raise"
                 THEN [files |-> fs, var_files |-> fp.var_files, kind |-> "raise",
                       paths |-> <<>>]
                 ELSE [files |-> WriteFile(fs1, download_path, fs1[temp_download_path]),
                       var_files |-> fp.var_files, kind |-> "list",
                       paths |-> <<download_path>>]

\* A MARSDownloader constructed on a dataset with canonical files for some
\* of the requested dates, about to run download().
SeqInit ==
    /\ BatchIdle /\ FilterIdle /\ StoreIdle /\ CallIdle
    /\ output_group_by \in OutputGroupBys
    /\ source = "MARS"
    /\ \E rf \in OutputGroupBys :
          request_frequency = ClampFrequency(rf, source_min_frequency,
                                             mars_source_max_frequency)
    /\ \E start_date, end_date \in Dates :
          /\ start_date <= end_date
          /\ end_date - start_date < MaxReq
          /\ dates = date_range(start_date, end_date)
    /\ \E E \in SUBSET Range(dates) :
          files = FilesHolding(variables[1].name, E, output_group_by)
    /\ var_files = <<>>
    /\ config_doc = merge_var_files(<<>>, [n \in {q.dir : q \in DOMAIN files} |->
                                              {q \in DOMAIN files : q.dir = n}])
    /\ config_data = config_doc
    /\ calls = 1 /\ vf_writers = {}
    /\ pc = "sequential" /\ planned = <<>>
    /\ req_list = <<>> /\ status = <<>> /\ result = <<>>
    /\ files_downloaded = EmptyBag /\ missing_dates = EmptyBag /\ appended = EmptyBag

SeqUnchanged ==
    UNCHANGED <<output_group_by, config_doc, config_data, source, request_frequency,
                dates, calls, vf_writers, missing_dates, appended,
                batchVars, callVars, filterVars, storeVars>>

\* The head of the loop over self.dataset.variables for the next slot:
\* filter_extant_data and batch_requested_dates (download.py:80-83)
SeqPlan ==
    /\ pc = "sequential"
    /\ \A u \in DOMAIN req_list : status[u] = "collected"
    /\ Len(planned) < 2 * Len(variables)
    /\ LET i == (Len(planned) \div 2) + 1
       IN  \E f \in {filter_extant_data(files, var_files, variables[i], dates,
                                        output_group_by)} :
              \E b \in {batch_requested_dates(f.value,
                                              FrequencyAttribute[request_frequency])} :
                 /\ var_files' = f.var_files
                 /\ planned' = planned \o <<[op |-> "filter_extant_data", vc |-> i],
                                            [op |-> "batch_requested_dates", vc |-> i]>>
                 /\ pc' = IF b.raised THEN "raised" ELSE pc
                 /\ req_list' = IF b.raised THEN req_list
                                ELSE req_list \o [k \in DOMAIN b.value |->
                                                     <<[vc |-> i, dates |-> b.value[k]]>>]
                 /\ status' = [u \in DOMAIN req_list' |->
                                  IF u \in DOMAIN status THEN status[u] ELSE "queued"]
                 /\ result' = [u \in DOMAIN req_list' |->
                                  IF u \in DOMAIN result THEN result[u]
                                  ELSE [kind |-> "pending", paths |-> <<>>]]
    /\ UNCHANGED <<files, files_downloaded>>
    /\ SeqUnchanged

\* One turn of the inner loop: self._download_method(var_config,
\* req_date_batch) in the calling thread, outside any try, and the extend of
\* its return value (download.py:84-92)
SeqFetch(u) ==
    /\ pc = "sequential"
    /\ status[u] = "queued"
    /\ \A v \in DOMAIN req_list : v < u => status[v] # "queued"
    /\ \E a \in MarsAnswers :
          \E r \in {mars_single_download(files, var_files, req_list[u][1], a,
                                         output_group_by)} :
             /\ files' = r.files
             /\ var_files' = r.var_files
             /\ result' = [result EXCEPT ![u] = [kind |-> r.kind, paths |-> r.paths]]
             /\ files_downloaded' = IF r.kind = "list"
                                    THEN files_downloaded (+) extend(r.paths)
                                    ELSE files_downloaded
             /\ pc' = IF r.kind = "raise" THEN "raised" ELSE pc
    /\ status' = [status EXCEPT ![u] = "collected"]
    /\ UNCHANGED <<req_list, planned>>
    /\ SeqUnchanged

\* Both loops are exhausted and download() returns
SeqReturn ==
    /\ pc = "sequential"
    /\ \A u \in DOMAIN req_list : status[u] = "collected"
    /\ Len(planned) = 2 * Len(variables)
    /\ pc' = "done"
    /\ UNCHANGED <<files, var_files, req_list, status, result, planned, files_downloaded>>
    /\ SeqUnchanged

SeqNext ==
    \/ SeqPlan
    \/ \E u \in DOMAIN req_list : SeqFetch(u)
    \/ SeqReturn

SpecSeq == SeqInit /\ [][SeqNext]_vars

\* ------------------------------ the persisted configuration across processes
\* Processes that construct the DatasetConfig on the same configuration
\* file, add paths to the inventory and save the configuration.
PersistInit ==
    /\ BatchIdle /\ FilterIdle /\ StoreIdle /\ RunIdle /\ CallIdle
    /\ output_group_by = "YEAR"
    /\ files = NoFiles
    /\ var_files = <<>>
    /\ config_doc = NoConfig
    /\ config_data = NoConfig

PersistUnchanged ==
    UNCHANGED <<output_group_by, files, batchVars, filterVars, storeVars, runVars, callVars>>

\* dataset.var_filepaths(var_config, date_batch) as planning, fetching and
\* saving call it: the paths of the batch join the inventory
TrackPaths(vc, date_batch) ==
    /\ \E r \in {var_filepaths(var_files, variables[vc], date_batch, FALSE,
                               output_group_by)} :
          var_files' = r.var_files
    /\ UNCHANGED <<config_doc, config_data>>
    /\ PersistUnchanged

\* dataset.save_config() (base.py:86-87): Configuration.render writes
\* {"data": owner.get_config(), ...} to the configuration file
\* (config.py:53-68)
SaveConfig ==
    /\ config_doc' = get_config(config_data, var_files)
    /\ config_data' = extended_in_place(config_data, var_files)
    /\ UNCHANGED var_files
    /\ PersistUnchanged

\* The next process: DatasetConfig.__init__ starts from an empty inventory
\* (dataset.py:67) and Configuration.__init__ loads the configuration file
\* into its data (config.py:28-37)
NewProcess ==
    /\ var_files' = <<>>
    /\ config_data' = config_doc
    /\ UNCHANGED config_doc
    /\ PersistUnchanged

PersistNext ==
    \/ \E vc \in DOMAIN variables, d \in Dates : TrackPaths(vc, <<d>>)
    \/ SaveConfig
    \/ NewProcess

SpecPersist == PersistInit /\ [][PersistNext]_vars

\* ------------------------------------ per-date fetch over a transfer client
\* FTPClient.single_request and HTTPClient.single_request (utils.py:152-213)
\* either write the destination or raise ClientError
Replies == {"ok", "ClientError"}

\* The exceptions the per-date loop catches: SICDownloader names
\* DownloaderError only (osisaf.py:9, 325), AMSRDownloader names both
\* (amsr.py:9, 97).  ClientError and DownloaderError are unrelated subclasses
\* of RuntimeError (utils.py:216, download.py:221).
ClientSources == {"AMSR", "OSISAF"}
Caught(src) ==
    IF src = "AMSR" THEN {"ClientError", "DownloaderError"} ELSE {"DownloaderError"}

\* SICDownloader._single_download (osisaf.py:273-331) and
\* AMSRDownloader._single_download (amsr.py:73-104) from date i on: have is
\* the set of dates whose destination exists, reply the client's answer per
\* date; st = [files, missing, visited]
RECURSIVE client_single_download(_, _, _, _, _, _)
client_single_download(src, have, reply, req_dates, i, st) ==
    IF i > Len(req_dates)
    THEN [raised |-> FALSE, files |-> st.files, missing |-> st.missing,
          visited |-> st.visited]
    ELSE LET file_date == req_dates[i]
             seen == [st EXCEPT !.visited = Append(@, file_date)]
         IN  IF file_date \in have
             THEN client_single_download(src, have, reply, req_dates, i + 1,
                      [seen EXCEPT !.files = Append(@, file_date)])
             ELSE IF reply[file_date] = "ok"
             THEN client_single_download(src, have \cup {file_date}, reply, req_dates,
                      i + 1, [seen EXCEPT !.files = Append(@, file_date)])
             ELSE IF reply[file_date] \in Caught(src)
             THEN client_single_download(src, have, reply, req_dates, i + 1,
                      [seen EXCEPT !.missing = Append(@, file_date)])
             ELSE [raised |-> TRUE, files |-> <<>>, missing |-> seen.missing,
                   visited |-> seen.visited]

\* ------------------------------- operations of the interface, applied once
\* One call of an operation on arguments drawn from small sets.
CompareCalls ==
    [op : {"compare"}, cmp : Comparisons, a : Frequencies, b : Frequencies]

ConfigCalls ==
    [op : {"DatasetConfig"},
     frequency : Frequencies,
     levels : {<<>>, << <<None>> >>, << <<"850">>, <<None>> >>},
     output_group_by : Frequencies,
     valid_frequencies : {{"DAY", "MONTH"}, {"DAY"}, Frequencies},
     var_names : {<<>>, <<"t">>, <<"t", "u">>}]

DownloaderCalls ==
    {c \in [op : {"Downloader"},
            request_frequency : Frequencies,
            source_min_frequency : Frequencies,
            source_max_frequency : Frequencies] :
        FrequencyCompare("<=", c.source_min_frequency, c.source_max_frequency)}

VariablesCalls ==
    [op : {"variables"},
     var_names : {<<"t", "u">>, <<"t", "t2">>, <<"t2", "u">>},
     levels : {<< <<"850">>, <<None>> >>, << <<"250">>, <<"50">> >>,
               << <<"250", "50">>, <<"50">> >>}]

VarFilepathCalls ==
    [op : {"var_filepath"}, vc : DOMAIN variables, date_batch : SeqsUpTo(Dates, MaxLen)]

\* The dates a fetch unit is asked for
UnitDates == 0 .. MaxLen - 1

SingleDownloadCalls ==
    [op : {"single_download"},
     src : ClientSources,
     req_dates : SeqsUpTo(UnitDates, MaxLen),
     have : SUBSET UnitDates,
     reply : [UnitDates -> Replies]]

CallInit ==
    /\ BatchIdle /\ FilterIdle /\ StoreIdle /\ RunIdle
    /\ c_pc = "call"
    /\ \/ call \in CompareCalls
       \/ call \in ConfigCalls
       \/ call \in DownloaderCalls
       \/ call \in VariablesCalls
       \/ call \in VarFilepathCalls
       \/ call \in SingleDownloadCalls
    /\ ret = <<>>
    /\ output_group_by \in IF call.op = "var_filepath" THEN OutputGroupBys ELSE {"YEAR"}
    /\ files = NoFiles
    /\ var_files = <<>>
    /\ config_doc = NoConfig
    /\ config_data = NoConfig

CallUnchanged ==
    UNCHANGED <<call, output_group_by, files, config_doc, config_data,
                batchVars, filterVars, storeVars, runVars>>

\* a < b, a == b, ... on two members of Frequency
Compare ==
    /\ c_pc = "call" /\ call.op = "compare"
    /\ ret' = FrequencyCompare(call.cmp, call.a, call.b)
    /\ c_pc' = "returned"
    /\ UNCHANGED var_files
    /\ CallUnchanged

\* DatasetConfig(frequency=, levels=, output_group_by=, valid_frequencies=,
\* var_names=)
NewDatasetConfig ==
    /\ c_pc = "call" /\ call.op = "DatasetConfig"
    /\ ret' = DatasetConfig_init(call.frequency, call.levels, call.output_group_by,
                                 call.valid_frequencies, call.var_names)
    /\ c_pc' = "returned"
    /\ UNCHANGED var_files
    /\ CallUnchanged

\* Downloader(request_frequency=, source_min_frequency=, source_max_frequency=)
NewDownloader ==
    /\ c_pc = "call" /\ call.op = "Downloader"
    /\ ret' = [request_frequency |->
                  ClampFrequency(call.request_frequency, call.source_min_frequency,
                                 call.source_max_frequency)]
    /\ c_pc' = "returned"
    /\ UNCHANGED var_files
    /\ CallUnchanged

\* dataset.variables of a DatasetConfig with the given names and levels
GetVariables ==
    /\ c_pc = "call" /\ call.op = "variables"
    /\ ret' = VariablesFrom(call.var_names, call.levels, 1)
    /\ c_pc' = "returned"
    /\ UNCHANGED var_files
    /\ CallUnchanged

\* dataset.var_filepath(var_config, date_batch)
VarFilepath ==
    /\ c_pc = "call" /\ call.op = "var_filepath"
    /\ \E r \in {var_filepath(var_files, variables[call.vc], call.date_batch,
                              output_group_by)} :
          /\ ret' = [raised |-> r.raised, path |-> r.path]
          /\ var_files' = r.var_files
    /\ c_pc' = "returned"
    /\ CallUnchanged

\* downloader._single_download(var_config, req_dates) of AMSR and OSISAF
SingleDownload ==
    /\ c_pc = "call" /\ call.op = "single_download"
    /\ ret' = client_single_download(call.src, call.have, call.reply, call.req_dates, 1,
                  [files |-> <<>>, missing |-> <<>>, visited |-> <<>>])
    /\ c_pc' = "returned"
    /\ UNCHANGED var_files
    /\ CallUnchanged

CallNext ==
    \/ Compare
    \/ NewDatasetConfig
    \/ NewDownloader
    \/ GetVariables
    \/ VarFilepath
    \/ SingleDownload

SpecCall == CallInit /\ [][CallNext]_vars

\* ------------------------------------------------------------------ claims

C7_BatchesAreMaximalRuns ==
    b_pc = "returned" =>
        /\ \A k \in DOMAIN b_out : \A i \in DOMAIN b_out[k] :
              Attr(b_out[k][i], b_attr) = Attr(b_out[k][1], b_attr)
        /\ \A k \in 1 .. (Len(b_out) - 1) :
              Attr(b_out[k][Len(b_out[k])], b_attr) # Attr(b_out[k + 1][1], b_attr)

C7_Witness ==
    /\ b_pc = "returned"
    /\ b_attr = "month"
    /\ Len(b_out) = 2
    /\ Len(b_out[1]) = 2
    /\ b_out[1][1] # b_out[1][2]


\* Date d is stored for a slot when the canonical file of d's output period
\* exists and its time coordinate lists d.
DateStored(fs, name, d, ogb) ==
    /\ Exists(fs, CanonPath(name, strftime(d, ogb)))
    /\ d \in Times(fs[CanonPath(name, strftime(d, ogb))])

\* C8: filter_extant_data returns exactly the input dates that are not among
\* the time values of the slot's existing canonical files, in descending
\* order; with no candidate file it returns every input date.
C8_FilterReturnsAbsentDatesDescending ==
    f_pc = "returned" =>
        /\ \A d \in Dates :
              d \in Range(f_out) <=>
                  /\ d \in Range(f_dates)
                  /\ ~DateStored(files, variables[f_vc].name, d, output_group_by)
        /\ \A i \in 1 .. (Len(f_out) - 1) : f_out[i] > f_out[i + 1]
        /\ (\A d \in Range(f_dates) :
               ~Exists(files, CanonPath(variables[f_vc].name, strftime(d, output_group_by))))
           => Len(f_out) = Len(f_dates)

C8_Witness ==
    /\ f_pc = "returned"
    /\ Len(f_dates) = MaxSpan
    /\ Len(f_out) = 2
    /\ f_dates[1] < f_dates[2]
    /\ \E d \in Range(f_dates) :
          DateStored(files, variables[f_vc].name, d, output_group_by)

\* The groups written to canonical path p so far, oldest first
HistoryOf(p) == SelectSeq(history, LAMBDA h : h.path = p)

\* C9: after any number of consolidations every canonical file's time
\* coordinate is ascending without duplicates and is the union of the time
\* values of all groups written to it; only canonical files remain.
C9_MergedTimesAreSortedUnion ==
    /\ \A p \in DOMAIN files :
          /\ p.kind = "nc"
          /\ \A i \in 1 .. (Len(files[p]) - 1) : files[p][i].t < files[p][i + 1].t
          /\ Times(files[p]) =
                UNION {Times(HistoryOf(p)[k].data) : k \in DOMAIN HistoryOf(p)}
    /\ \A k \in DOMAIN history : history[k].path \in DOMAIN files

C9_Witness ==
    \E p \in DOMAIN files :
        /\ Len(HistoryOf(p)) = 2
        /\ Times(HistoryOf(p)[1].data) \cap Times(HistoryOf(p)[2].data) # {}
        /\ Times(HistoryOf(p)[2].data) \ Times(HistoryOf(p)[1].data) # {}
        /\ Times(HistoryOf(p)[1].data) \ Times(HistoryOf(p)[2].data) # {}

ValueAt(da, t) == (CHOOSE x \in Range(da) : x.t = t).v

\* C10 as claimed: on a timestamp present in the existing file and in the
\* new group the merged file keeps the value stored first.
C10_KeepsExistingValue ==
    \A p \in DOMAIN files : \A t \in Times(files[p]) :
        LET holding == SelectSeq(HistoryOf(p), LAMBDA h : t \in Times(h.data))
        IN  ValueAt(files[p], t) = ValueAt(holding[1].data, t)

\* C10 amended: on a timestamp present in the existing file and in the new
\* group the merged file holds the value of the newly written group, that
\* is, of the latest group written for that timestamp.
C10_KeepsNewestValue ==
    \A p \in DOMAIN files : \A t \in Times(files[p]) :
        LET holding == SelectSeq(HistoryOf(p), LAMBDA h : t \in Times(h.data))
        IN  ValueAt(files[p], t) = ValueAt(holding[Len(holding)].data, t)

C10_Witness ==
    \E p \in DOMAIN files : \E t \in Times(files[p]) :
        /\ Len(HistoryOf(p)) = 2
        /\ t \in Times(HistoryOf(p)[1].data) \cap Times(HistoryOf(p)[2].data)
        /\ ValueAt(HistoryOf(p)[1].data, t) = "v1"
        /\ ValueAt(HistoryOf(p)[2].data, t) = "v2"
        /\ ValueAt(files[p], t) = "v2"

\* The paths the collected units returned as lists
Returned == UNION {Range(result[u].paths) : u \in DOMAIN req_list}

\* C1: whatever subset of the units raises from its fetch operation,
\* download() never raises to its caller and, until it returns, always has
\* a unit to start, to finish or to collect, or the return itself to take;
\* once it has returned every unit has been run to its end and
\* collected, and files_downloaded holds every path of every unit that
\* returned a list.
C1_FailuresAreIsolated ==
    /\ pc # "raised"
    /\ pc = "dispatching" =>
          \/ \E u \in DOMAIN req_list : status[u] \in {"running", "done"}
          \/ \A u \in DOMAIN req_list : status[u] = "collected"
          \/ /\ \E u \in DOMAIN req_list : status[u] = "queued"
             /\ Cardinality({v \in DOMAIN req_list : status[v] = "running"}) < max_workers
    /\ pc \in {"done", "consolidated"} =>
          \A u \in DOMAIN req_list :
             /\ status[u] = "collected"
             /\ result[u].kind \in {"list", "none", "raise"}
             /\ \A q \in Range(result[u].paths) : BagIn(q, files_downloaded)

C1_Witness ==
    /\ pc = "done"
    /\ source # "AWS"
    /\ \E u, v \in DOMAIN req_list :
          /\ result[u].kind = "raise"
          /\ result[v].kind = "list"
          /\ result[v].paths # <<>>
          /\ \A q \in Range(result[v].paths) : BagIn(q, files_downloaded)

\* C2: after the thread-pool download() has collected all units,
\* files_downloaded holds exactly the paths the units returned, each of them
\* once.
C2_FilesDownloadedIsDeduplicatedUnion ==
    (pc = "done" /\ source # "AWS") =>
        /\ BagToSet(files_downloaded) = Returned
        /\ \A q \in BagToSet(files_downloaded) : CopiesIn(q, files_downloaded) = 1

\* C3: after download() has returned, the missing_dates of the caller holds
\* exactly the dates the fetch operations appended during the run, on the
\* thread pool and on the process pool.
C3_MissingDatesIsWhatFetchAppended ==
    pc \in {"done", "consolidated"} => missing_dates = appended

\* C4: after a run and its consolidation, if missing_dates is empty then
\* every requested date of every slot is in a canonical file.
C4_EmptyMissingDatesMeansAllStored ==
    (pc = "consolidated" /\ missing_dates = EmptyBag) =>
        \A i \in DOMAIN variables : \A d \in Range(dates) :
            DateStored(files, variables[i].name, d, output_group_by)

\* The dates of the units planned for slot i, with repetitions
DispatchedDates(i) ==
    LET of_unit(unit) ==
            Flatten([k \in DOMAIN unit |->
                        IF unit[k].vc = i THEN unit[k].dates ELSE <<>>])
    IN  Flatten([u \in DOMAIN req_list |-> of_unit(req_list[u])])

\* C5: a run over a date range on a data directory already holding
\* canonical files plans units whose dates are, per slot, the requested
\* dates that no canonical file of the slot lists, each once; when the
\* files list every requested date no unit is planned.
C5_PlansExactlyTheAbsentDates ==
    pc \in {"dispatching", "done"} =>
        /\ \A i \in DOMAIN variables : \A d \in Dates :
              Count(d, DispatchedDates(i)) =
                 IF /\ d \in Range(dates)
                    /\ ~DateStored(files, variables[i].name, d, output_group_by)
                 THEN 1 ELSE 0
        /\ (\A i \in DOMAIN variables : \A d \in Range(dates) :
               DateStored(files, variables[i].name, d, output_group_by))
           => req_list = <<>>

C5_Witness ==
    /\ pc = "dispatching"
    /\ \E i \in DOMAIN variables : \E d1, d2 \in Range(dates) :
          /\ DateStored(files, variables[i].name, d1, output_group_by)
          /\ ~DateStored(files, variables[i].name, d2, output_group_by)
          /\ Count(d1, DispatchedDates(i)) = 0
          /\ Count(d2, DispatchedDates(i)) = 1

\* The members from coarsest to finest, and the place of a member in it
Coarsest == <<"YEAR", "MONTH", "DAY", "HOUR">>
Place(f) == CHOOSE i \in DOMAIN Coarsest : Coarsest[i] = f

\* What a comparison yields on two places of a chain
OnPlaces(cmp, i, j) ==
    CASE cmp = "<" -> i < j
      [] cmp = "<=" -> i <= j
      [] cmp = "==" -> i = j
      [] cmp = "!=" -> i # j
      [] cmp = ">=" -> i >= j
      [] cmp = ">" -> i > j

\* C11 as claimed: the comparison operators of Frequency order the members
\* as YEAR > MONTH > DAY > HOUR, a total order in which == holds only
\* between identical members.
C11_YearComparesGreatest ==
    (c_pc = "returned" /\ call.op = "compare") =>
        ret = OnPlaces(call.cmp, Place(call.b), Place(call.a))

\* C11 amended: the comparison operators of Frequency order the members by
\* their integer values, HOUR > DAY > MONTH > YEAR (the finer member compares
\* greater); the order is total and == holds only between identical members.
C11_FinerComparesGreater ==
    (c_pc = "returned" /\ call.op = "compare") =>
        ret = OnPlaces(call.cmp, Place(call.a), Place(call.b))

C11_Witness ==
    /\ c_pc = "returned" /\ call.op = "compare"
    /\ call.cmp = ">" /\ call.a = "MONTH" /\ call.b = "YEAR"
    /\ ret = TRUE

\* C12: DatasetConfig construction raises a configuration error whenever
\* the variable list is empty, the number of level-sets differs from the
\* number of variables, output_group_by is finer than frequency, or frequency
\* is not among valid_frequencies, and only then; so every constructed
\* catalog satisfies the four conditions.
C12_ConstructionRaisesIffInvalid ==
    (c_pc = "returned" /\ call.op = "DatasetConfig") =>
        (ret.raised <=>
            \/ call.var_names = <<>>
            \/ Len(call.levels) # Len(call.var_names)
            \/ Place(call.output_group_by) > Place(call.frequency)
            \/ call.frequency \notin call.valid_frequencies)

C12_Witness ==
    /\ c_pc = "returned" /\ call.op = "DatasetConfig"
    /\ call.var_names = <<"t", "u">> /\ Len(call.levels) = 2
    /\ call.frequency = "MONTH" /\ call.output_group_by = "DAY"
    /\ call.frequency \in call.valid_frequencies
    /\ ret.raised

\* C13: for every requested frequency r and bounds source_min_frequency <=
\* source_max_frequency, the effective request_frequency lies within the
\* bounds, equals r when r is inside them and the nearest bound otherwise.
C13_RequestFrequencyIsClamped ==
    (c_pc = "returned" /\ call.op = "Downloader") =>
        LET r == Place(call.request_frequency)
            lo == Place(call.source_min_frequency)
            hi == Place(call.source_max_frequency)
            e == Place(ret.request_frequency)
        IN  /\ lo <= e /\ e <= hi
            /\ (lo <= r /\ r <= hi) => e = r
            /\ r < lo => e = lo
            /\ r > hi => e = hi

C13_Witness ==
    /\ c_pc = "returned" /\ call.op = "Downloader"
    /\ call.request_frequency = "HOUR"
    /\ call.source_min_frequency = "YEAR" /\ call.source_max_frequency = "MONTH"
    /\ ret.request_frequency = "MONTH"

\* C16: distinct (variable, level) slots of one catalog have distinct
\* composite names, hence disjoint directories and paths.
C16_DistinctSlotsHaveDistinctNames ==
    (c_pc = "returned" /\ call.op = "variables") =>
        \A i, j \in DOMAIN ret :
            (ret[i].prefix # ret[j].prefix \/ ret[i].level # ret[j].level) =>
                /\ ret[i].name # ret[j].name
                /\ \A d, e \in Dates, f \in {"YEAR", "MONTH", "DAY"} :
                      CanonPath(ret[i].name, strftime(d, f))
                          # CanonPath(ret[j].name, strftime(e, f))

\* Whether two dates fall into the same output period
SamePeriod(d, e, f) ==
    CASE f = "YEAR" -> Year(d) = Year(e)
      [] f = "MONTH" -> Year(d) = Year(e) /\ Month(d) = Month(e)
      [] f = "DAY" -> d = e

\* C18: var_filepath on a slot and a non-empty batch returns exactly the
\* slot's canonical path of the batch's output period when every date of the
\* batch is in one period, and raises when the batch spans more than one.
C18_OnePeriodOrRaises ==
    (c_pc = "returned" /\ call.op = "var_filepath" /\ call.date_batch # <<>>) =>
        LET b == call.date_batch
            one == \A i, j \in DOMAIN b : SamePeriod(b[i], b[j], output_group_by)
        IN  /\ one => /\ ret.raised = ""
                      /\ ret.path = CanonPath(variables[call.vc].name,
                                              strftime(b[1], output_group_by))
            /\ ~one => ret.raised = "DataSetError" /\ ret.path = None

C18_Witness ==
    /\ c_pc = "returned" /\ call.op = "var_filepath"
    /\ output_group_by = "MONTH"
    /\ Len(call.date_batch) = 2
    /\ Month(call.date_batch[1]) # Month(call.date_batch[2])
    /\ ret.raised = "DataSetError"

\* C19: when the transfer client raises ClientError for a date, the fetch
\* operation of AMSR and of OSISAF appends that date to missing_dates, goes
\* on to the remaining dates of the unit and returns the files it did fetch.
C19_ClientErrorSkipsTheDate ==
    (c_pc = "returned" /\ call.op = "single_download") =>
        LET got(d) == d \in call.have \/ call.reply[d] = "ok"
            lost(d) == ~got(d)
        IN  /\ ~ret.raised
            /\ ret.visited = call.req_dates
            /\ ret.missing = SelectSeq(call.req_dates, lost)
            /\ ret.files = SelectSeq(call.req_dates, got)

\* The units whose fetch operation is executing
Executing == {u \in DOMAIN status : status[u] = "running"}

\* C14: at no point of download() are more than min(max_threads, number of
\* work units) fetch operations executing at once; with an empty work list
\* no pool is created and no fetch operation is ever invoked.
C14_AtMostMaxThreadsExecute ==
    /\ Cardinality(Executing) <= Min(max_threads, Len(req_list))
    /\ req_list = <<>> => (pc # "dispatching" /\ status = <<>> /\ appended = EmptyBag)

C14_Witness ==
    /\ pc = "dispatching"
    /\ Cardinality(Executing) = max_threads
    /\ \E u \in DOMAIN status : status[u] = "queued"

\* C15: the inventory (var_files) is never assigned by a fetch unit running
\* on a pool thread; only the orchestrating thread assigns it.
C15_WorkersNeverAssignInventory ==
    "worker" \notin vf_writers

\* The union of two inventories, name by name
InventoryUnion(a, b) ==
    [k \in (DOMAIN a) \cup (DOMAIN b) |->
        (IF k \in DOMAIN a THEN a[k] ELSE {}) \cup (IF k \in DOMAIN b THEN b[k] ELSE {})]

C20_RunIsSingleUse ==
    [][/\ pc = "dispatching" => pc' \in {"dispatching", "done", "raised"}
       /\ pc \in {"done", "consolidated"} =>
             /\ pc' \in {"done", "consolidated"}
             /\ files_downloaded' = files_downloaded
      ]_vars

\* C21: filter_extant_data applied to the value it has just returned, with
\* no file written in between, returns that value unchanged: same elements,
\* same order.
C21_FilterIsIdempotent ==
    f_pc = "again" => f_out = f_dates

C21_Witness ==
    /\ f_pc = "again"
    /\ Len(f_out) = 2
    /\ Exists(files, CanonPath(variables[f_vc].name, strftime(f_out[1], output_group_by)))

\* C29: every batch that batch_requested_dates produces for the attribute
\* 'month' lies within one calendar month of one year, and for 'year' within
\* one calendar year, whatever gaps the date collection has.
C29_BatchLiesInOnePeriod ==
    b_pc = "returned" =>
        \A k \in DOMAIN b_out : \A i, j \in DOMAIN b_out[k] :
            /\ b_attr = "year" => SamePeriod(b_out[k][i], b_out[k][j], "YEAR")
            /\ b_attr = "month" => SamePeriod(b_out[k][i], b_out[k][j], "MONTH")

\* C22: a call of save_data_for_config with data that returns has persisted
\* the configuration exactly once, after every group was written or merged
\* (the persisted inventory lists each written path), also when only some
\* configured variables have data; a call without data persists exactly
\* once if the catalog has the overwrite flag and never writes a data file.
C22_PersistsOncePerCall ==
    (c_pc = "returned" /\ call.op = "save_data_for_config") =>
        IF call.ds = NoData
        THEN /\ ret.saves = (IF call.overwrite THEN 1 ELSE 0)
             /\ ret.written = <<>>
             /\ files = call.files
        ELSE /\ ret.saves = 1
             /\ \A n \in DOMAIN call.ds : \E k \in DOMAIN ret.written :
                   ret.written[k].path.dir = n
             /\ \A k \in DOMAIN ret.written :
                   LET q == ret.written[k].path
                   IN  /\ q.dir \in DOMAIN call.ds
                       /\ Exists(files, q)
                       /\ q.dir \in DOMAIN config_doc
                       /\ q \in config_doc[q.dir]

C22_Witness ==
    /\ c_pc = "returned" /\ call.op = "save_data_for_config"
    /\ call.ds # NoData /\ DOMAIN call.ds # VarNames
    /\ Len(ret.written) >= 2
    /\ ret.saves = 1

\* The days of a source series after resample(time="1D")
ResampledDays(series) == SetMin(DOMAIN series) .. SetMax(DOMAIN series)

\* C25: for data of a configured slot whose resampled timestamps span P >= 1
\* output periods, save_data_for_config does not raise and writes or merges
\* exactly P canonical files, one per period, each receiving exactly the
\* timestamps of its period, for YEAR, MONTH and DAY grouping.
C25_OneFilePerPeriod ==
    (c_pc \in {"returned", "raised"} /\ call.op = "save_data_for_config"
     /\ call.ds # NoData) =>
        /\ ~ret.raised
        /\ \A n \in DOMAIN call.ds :
              LET days == ResampledDays(call.ds[n])
                  of_n == SelectSeq(ret.written, LAMBDA w : w.path.dir = n)
              IN  /\ Len(of_n) = Cardinality({strftime(d, output_group_by) : d \in days})
                  /\ \A d \in days : \E k \in DOMAIN of_n :
                        /\ of_n[k].path = CanonPath(n, strftime(d, output_group_by))
                        /\ Times(of_n[k].data) =
                              {e \in days : SamePeriod(d, e, output_group_by)}

\* C24: during merge_files neither the renamed original nor the temporary
\* file is gone before the canonical path holds the complete merged result,
\* so every previously stored timestamp is in some file at every step; after
\* a successful merge the canonical path holds the merged data and the two
\* other files are gone.
C24_NothingDeletedBeforeMergedIsWritten ==
    call.op = "merge_files" =>
        LET canonical == call.new_datafile
            moved == MovedPath(canonical)
            temporary == call.other_datafile
            merged == merge_files(call.files, canonical, temporary)[canonical]
        IN  /\ \A t \in Times(call.files[canonical]) :
                  \E q \in DOMAIN files : t \in Times(files[q])
            /\ (c_pc # "call" /\ (~Exists(files, moved) \/ ~Exists(files, temporary))) =>
                  (Exists(files, canonical) /\ files[canonical] = merged)
            /\ c_pc = "returned" =>
                  /\ DOMAIN files = {canonical}
                  /\ Times(files[canonical]) =
                        Times(call.files[canonical]) \cup Times(call.files[temporary])

C24_Witness ==
    /\ call.op = "merge_files" /\ c_pc = "returned"
    /\ Times(call.files[call.new_datafile]) \ Times(call.files[call.other_datafile]) # {}
    /\ Times(call.files[call.other_datafile]) \ Times(call.files[call.new_datafile]) # {}

\* C30: if merging fails while opening, concatenating or writing, the
\* canonical path still exists afterwards with the data it held before the
\* call, and filter_extant_data still reports the stored dates as present.
C30_FailedMergeKeepsCanonical ==
    (call.op = "merge_files" /\ c_pc = "raised") =>
        LET canonical == call.new_datafile
            stored == sorted(list_of_set(Times(call.files[canonical])))
        IN  /\ Exists(files, canonical)
            /\ files[canonical] = call.files[canonical]
            /\ filter_extant_data(files, var_files, variables[1], stored,
                                  output_group_by).value = <<>>


\* The raw and the temporary download path of the fetch of one
\* (var_config, req_dates) pair (cds.py:205-211): both carry the basename of
\* the pair's canonical path
PairTargets(pair) ==
    LET fp == var_filepath(var_files, variables[pair.vc], pair.dates, output_group_by)
    IN  IF fp.raised # "" THEN {}
        ELSE {DownloadPath(fp.path.dir, fp.path.file),
              [dir |-> fp.path.dir, file |-> fp.path.file, kind |-> "temp"]}

UnitTargets(u) == UNION {PairTargets(req_list[u][k]) : k \in DOMAIN req_list[u]}

\* C27: no two units of one run of the CDS downloader target the same raw or
\* temporary download path.
C27_UnitsTargetDistinctPaths ==
    (source = "CDS" /\ pc = "dispatching") =>
        \A u, v \in DOMAIN req_list :
            u # v => UnitTargets(u) \cap UnitTargets(v) = {}


\* The calls of operation op for slot i in the log of the planning loop
PlannedCalls(op, i) == {k \in DOMAIN planned : planned[k] = [op |-> op, vc |-> i]}

\* C23: in download() on the thread pool, once a unit has been submitted the
\* extant-data filter and the date batch planner have each been called
\* exactly once per slot, and from then on neither is called again and the
\* work list does not change.
C23_PlannedOnceBeforeDispatch ==
    /\ [](source # "AWS" /\ req_list # <<>> =>
             \A i \in DOMAIN variables :
                 /\ Cardinality(PlannedCalls("filter_extant_data", i)) = 1
                 /\ Cardinality(PlannedCalls("batch_requested_dates", i)) = 1)
    /\ [][(source # "AWS" /\ pc = "dispatching") =>
             (req_list' = req_list /\ planned' = planned)]_vars
    /\ [][(source # "AWS" /\ \E u \in DOMAIN status' : status'[u] # "queued") =>
             (pc # "planning" /\ planned' = planned)]_vars

C23_Witness ==
    /\ source = "CDS" /\ pc = "dispatching"
    /\ Len(req_list) = 2 /\ Len(planned) = 2 * Len(variables)
    /\ \E u \in DOMAIN req_list : status[u] = "running"


\* C26: in the sequential download() a failing fetch of one unit does not
\* end the run: when the run is over, every slot has been planned and every
\* unit has been fetched.
C26_SequentialFailureIsContained ==
    (source = "MARS" /\ pc \in {"done", "raised"}
        /\ \E u \in DOMAIN req_list :
              result[u].kind = "raise" \/ (result[u].kind = "list" /\ result[u].paths = <<>>)) =>
        /\ Len(planned) = 2 * Len(variables)
        /\ \A u \in DOMAIN req_list : status[u] = "collected"


\* The order in which a unit passes through the pool: submitted, taken by a
\* worker, fetch ended, result or exception collected
StatusOrder == [queued |-> 1, running |-> 2, done |-> 3, collected |-> 4]

=============================================================================
